---- MODULE Spec2Model ----
(***************************************************************************)
(* Model of src/main.py: the synchronisation of a Letterboxd list with the *)
(* film catalogue of the Mediatheque numerique.                            *)
(*                                                                         *)
(* Text is modelled as a sequence of characters (one-character strings),   *)
(* so that the regular expressions of decompose and create_csv are         *)
(* computed the way the re module computes them.  A pandas frame is a      *)
(* sequence of rows; a CSV file is a sequence of rows of cells, and        *)
(* to_csv / read_csv are the conversions between the two.                  *)
(***************************************************************************)
EXTENDS Integers, Sequences, FiniteSets, TLC

(***************************************************************************)
(* Bounds of the model.                                                    *)
(***************************************************************************)
\* largest number of entries the catalogue holds
MaxCatalog == 2
\* how many times the publication-date pass may come back truncated
MaxUnderReturn == 1

\* entries per page of the source (pageSize is 1000 in the code, scaled down)
PageSize == 2

\* largest number of pages the source holds
MaxPages == 2

\* largest number of films, the anchor apart, the list holds before an import
MaxPrevious == 2
\* largest number of films an import adds to the list
MaxNew == 3

(***************************************************************************)
(* Program constants.                                                      *)
(***************************************************************************)
duration_mini == 3000
max_deleted_films == 100

(***************************************************************************)
(* Characters and text helpers.                                            *)
(***************************************************************************)
Digits == {"0", "1", "2", "3", "4", "5", "6", "7", "8", "9"}
Whitespace == {" "}
QUOTE == "\""

\* the text t[a..b], empty when b < a
Slice(t, a, b) == IF b < a THEN <<>> ELSE SubSeq(t, a, b)

\* does the literal w occur in t at position p
HasAt(t, p, w) ==
    /\ p >= 1
    /\ p + Len(w) - 1 <= Len(t)
    /\ \A i \in 1..Len(w) : t[p + i - 1] = w[i]

\* first position >= p whose character is not in the class cls (Len(t)+1 if none):
\* where a greedy cls* that starts at p stops
RECURSIVE SkipClass(_, _, _)
SkipClass(t, p, cls) ==
    IF p <= Len(t) /\ t[p] \in cls THEN SkipClass(t, p + 1, cls) ELSE p

DigitValue(c) ==
    CASE c = "0" -> 0 [] c = "1" -> 1 [] c = "2" -> 2 [] c = "3" -> 3
      [] c = "4" -> 4 [] c = "5" -> 5 [] c = "6" -> 6 [] c = "7" -> 7
      [] c = "8" -> 8 [] c = "9" -> 9

\* int(s) of a non-empty string of digits
RECURSIVE ParseInt(_)
ParseInt(s) ==
    IF Len(s) = 0 THEN 0
    ELSE 10 * ParseInt(SubSeq(s, 1, Len(s) - 1)) + DigitValue(s[Len(s)])

\* ",".join(names)
RECURSIVE Join(_)
Join(names) ==
    IF Len(names) = 0 THEN <<>>
    ELSE IF Len(names) = 1 THEN names[1]
    ELSE names[1] \o <<",">> \o Join(Tail(names))

\* the smallest tuple of a non-empty set of integer tuples of one length, in
\* lexicographic order: the order in which a backtracking matcher with lazy
\* quantifiers tries the candidates
LexLess(a, b) ==
    \E i \in 1..Len(a) :
        /\ a[i] < b[i]
        /\ \A j \in 1..(i - 1) : a[j] = b[j]
LexMin(S) == CHOOSE a \in S : \A b \in S : a = b \/ LexLess(a, b)

(***************************************************************************)
(* decompose (src/main.py:88-115).                                         *)
(*                                                                         *)
(* A row of the frame before decompose: ID, Title (text), Directors (the   *)
(* list of director names; None and [] both give "" and are both <<>>),    *)
(* Year (<<>> for a missing productionYear, <<y>> otherwise).              *)
(***************************************************************************)
Positions(t, w) == {p \in 1..Len(t) : HasAt(t, p, w)}

\* where group 2 of pattern A starts when the closing quote is at j:
\* after  " d'  or  " de   (0 when neither follows the quote)
AfterDe(t, j) ==
    IF HasAt(t, j + 1, <<" ", "d", "'">>) THEN j + 4
    ELSE IF HasAt(t, j + 1, <<" ", "d", "e", " ">>) THEN j + 5
    ELSE 0

\* pattern = r"\"(.*?)\" d(?:'|e )(.*?) \((\d*)\)"
\* <<i, j, k>>: opening quote at i, closing quote at j, " (" at k, the digits
\* run greedily from k+2 and a ")" follows them
PatternAMatches(t) ==
    {m \in Positions(t, <<QUOTE>>) \X Positions(t, <<QUOTE>>) \X Positions(t, <<" ", "(">>) :
        /\ m[1] < m[2]
        /\ AfterDe(t, m[2]) > 0
        /\ AfterDe(t, m[2]) <= m[3]
        /\ HasAt(t, SkipClass(t, m[3] + 2, Digits), <<")">>)}

\* pattern2 = r"\"(.*?)\" de "
PatternBMatches(t) ==
    {m \in Positions(t, <<QUOTE>>) \X Positions(t, <<QUOTE>>) :
        /\ m[1] < m[2]
        /\ HasAt(t, m[2] + 1, <<" ", "d", "e", " ">>)}

\* the three groups of result[0], the first match of pattern A
PatternAGroups(t) ==
    LET m == LexMin(PatternAMatches(t))
    IN  << Slice(t, m[1] + 1, m[2] - 1),
           Slice(t, AfterDe(t, m[2]), m[3] - 1),
           Slice(t, m[3] + 2, SkipClass(t, m[3] + 2, Digits) - 1) >>

\* int(result[0][2]) raises ValueError on the empty string
DecomposeRaises(row) ==
    /\ row.Year = <<>>
    /\ PatternAMatches(row.Title) # {}
    /\ PatternAGroups(row.Title)[3] = <<>>

\* decompose with pattern2 tried before pattern
decompose_Pattern2First(r) ==
    IF r.Year # <<>>
    THEN [Title |-> r.Title, Directors |-> Join(r.Directors), Year |-> r.Year]
    ELSE IF PatternBMatches(r.Title) # {}
    THEN LET m == LexMin(PatternBMatches(r.Title))
         IN  [Title |-> Slice(r.Title, m[1] + 1, m[2] - 1),
              Directors |-> <<>>, Year |-> <<>>]
    ELSE IF PatternAMatches(r.Title) # {}
    THEN LET g == PatternAGroups(r.Title)
         IN  [Title |-> g[1], Directors |-> g[2], Year |-> <<ParseInt(g[3])>>]
    ELSE [Title |-> r.Title, Directors |-> <<>>, Year |-> <<>>]

decompose(row) ==
    IF row.Year # <<>>
    THEN [Title |-> row.Title, Directors |-> Join(row.Directors), Year |-> row.Year]
    ELSE IF PatternAMatches(row.Title) # {}
    THEN LET g == PatternAGroups(row.Title)
         IN  [Title |-> g[1], Directors |-> g[2], Year |-> <<ParseInt(g[3])>>]
    ELSE IF PatternBMatches(row.Title) # {}
    THEN LET m == LexMin(PatternBMatches(row.Title))
         IN  [Title |-> Slice(row.Title, m[1] + 1, m[2] - 1),
              Directors |-> <<>>, Year |-> <<>>]
    ELSE [Title |-> row.Title, Directors |-> <<>>, Year |-> <<>>]

(***************************************************************************)
(* The title clean-up of create_csv (src/main.py:168-177).                 *)
(***************************************************************************)
\* Title.str.contains(r"[sS]aison \d")
ContainsSaison(t) ==
    \E p \in 1..Len(t) :
        /\ t[p] \in {"s", "S"}
        /\ HasAt(t, p + 1, <<"a", "i", "s", "o", "n", " ">>)
        /\ p + 7 <= Len(t)
        /\ t[p + 7] \in Digits

\* the words of (?:restauree|longue|cinema); the accented e is the character "e'"
VersionWords ==
    { <<"r", "e", "s", "t", "a", "u", "r", "e'", "e">>,
      <<"l", "o", "n", "g", "u", "e">>,
      <<"c", "i", "n", "e'", "m", "a">> }

\* pattern_version = r"\-*\(*\s*(?:V|v)ersion (?:restauree|longue|cinema)\)*"
\* matched at position p: the position after the match, 0 when it does not match.
\* The three starred classes are disjoint from each other and from V, so the
\* greedy choice is the only one that can match.
VersionMatchEnd(t, p) ==
    LET v == SkipClass(t, SkipClass(t, SkipClass(t, p, {"-"}), {"("}), Whitespace)
        ws == {w \in VersionWords : HasAt(t, v + 8, w)}
    IN  IF /\ v <= Len(t)
           /\ t[v] \in {"V", "v"}
           /\ HasAt(t, v + 1, <<"e", "r", "s", "i", "o", "n", " ">>)
           /\ ws # {}
        THEN SkipClass(t, v + 8 + Len(CHOOSE w \in ws : TRUE), {")"})
        ELSE 0

\* Title.str.replace(pattern_version, "", regex=True): every match, left to right
RECURSIVE RemoveVersionFrom(_, _)
RemoveVersionFrom(t, p) ==
    IF p > Len(t) THEN <<>>
    ELSE IF VersionMatchEnd(t, p) > 0 THEN RemoveVersionFrom(t, VersionMatchEnd(t, p))
    ELSE <<t[p]>> \o RemoveVersionFrom(t, p + 1)
RemoveVersion(t) == RemoveVersionFrom(t, 1)

\* Title.str.replace("' ", "'"): every occurrence, left to right
RECURSIVE FixApostropheFrom(_, _)
FixApostropheFrom(t, p) ==
    IF p > Len(t) THEN <<>>
    ELSE IF HasAt(t, p, <<"'", " ">>) THEN <<"'">> \o FixApostropheFrom(t, p + 2)
    ELSE <<t[p]>> \o FixApostropheFrom(t, p + 1)
FixApostrophe(t) == FixApostropheFrom(t, 1)

\* Title.str.strip()
RECURSIVE Strip(_)
Strip(t) ==
    IF Len(t) = 0 THEN t
    ELSE IF t[1] \in Whitespace THEN Strip(Tail(t))
    ELSE IF t[Len(t)] \in Whitespace THEN Strip(SubSeq(t, 1, Len(t) - 1))
    ELSE t

CleanTitle(t) == Strip(FixApostrophe(RemoveVersion(t)))

(***************************************************************************)
(* Frames and CSV files.                                                   *)
(*                                                                         *)
(* A frame row is [ID, Title, Directors, Year].  In a frame built by       *)
(* create_csv the Year column is Int64: <<>> is <NA>, <<y>> the integer y. *)
(* In a frame read by read_csv a column with a missing value is float64:   *)
(* <<>> is NaN and <<y, ".0">> the float y.0; an empty text cell is NaN.   *)
(* A file row has the same fields, holding the text of each cell:          *)
(* <<>> the empty cell, <<y>> the text "y", <<y, ".0">> the text "y.0".    *)
(***************************************************************************)
NaN == <<"NaN">>

\* DataFrame.to_csv(index=False): a missing value is written as an empty cell
ToCsvCell(v) == IF v = NaN THEN <<>> ELSE v
ToCsv(frame) ==
    [i \in 1..Len(frame) |->
        [c \in DOMAIN frame[i] |->
            IF c \in {"Title", "Directors"} THEN ToCsvCell(frame[i][c])
            ELSE frame[i][c]]]

\* pd.read_csv: an empty cell is NaN, and a numeric column that holds an empty
\* cell or a decimal point is float64
YearIsFloat(file) == \E i \in 1..Len(file) : Len(file[i].Year) # 1
ReadCsvText(cell) == IF cell = <<>> THEN NaN ELSE cell
ReadCsvYear(file, cell) ==
    IF cell = <<>> THEN <<>>
    ELSE IF YearIsFloat(file) THEN <<cell[1], ".0">>
    ELSE cell
ReadCsv(file) ==
    [i \in 1..Len(file) |->
        [ID |-> file[i].ID,
         Title |-> ReadCsvText(file[i].Title),
         Directors |-> ReadCsvText(file[i].Directors),
         Year |-> ReadCsvYear(file, file[i].Year)]]

\* frame.drop("ID", axis="columns")
DropID(frame) ==
    [i \in 1..Len(frame) |->
        [Title |-> frame[i].Title, Directors |-> frame[i].Directors,
         Year |-> frame[i].Year]]

\* the set of values of frame["ID"]
IDs(frame) == {frame[i].ID : i \in 1..Len(frame)}

(***************************************************************************)
(* create_csv (src/main.py:118-185), as a function of the data that        *)
(* load_raw_data returned.                                                 *)
(***************************************************************************)
\* the three row filters on productType, seasonsCount and duration
KeepRaw(e) ==
    /\ e.productType = "PROGRAM"
    /\ e.seasonsCount = 0
    /\ e.duration # <<>>
    /\ e.duration[1] > duration_mini

\* the columns kept and renamed ID, Title, Directors, Year
RawRow(e) ==
    [ID |-> e.id, Title |-> e.title, Directors |-> e.directors,
     Year |-> e.productionYear]

Filtered(data) == SelectSeq(data, KeepRaw)

\* the row after decompose
Decomposed(e) ==
    LET d == decompose(RawRow(e))
    IN  [ID |-> e.id, Title |-> d.Title, Directors |-> d.Directors, Year |-> d.Year]

NotSaison(row) == ~ContainsSaison(row.Title)

Cleaned(row) == [row EXCEPT !.Title = CleanTitle(row.Title)]

Triple(row) == <<row.Title, row.Directors, row.Year>>

\* KeepFirst as keep="last" would have it
KeepFirst_Last(rows, i) == \A j \in (i + 1)..Len(rows) : Triple(rows[j]) # Triple(rows[i])

\* drop_duplicates(subset=["Title", "Directors", "Year"]): a row stays when no
\* earlier row has its triple
KeepFirst(rows, i) == \A j \in 1..(i - 1) : Triple(rows[j]) # Triple(rows[i])

drop_duplicates(rows) ==
    LET kept == SelectSeq([i \in 1..Len(rows) |-> i], LAMBDA i : KeepFirst(rows, i))
    IN  [k \in 1..Len(kept) |-> rows[kept[k]]]

\* the rows that reach drop_duplicates
Normalized(data) ==
    LET dec == [i \in 1..Len(Filtered(data)) |-> Decomposed(Filtered(data)[i])]
        kept == SelectSeq(dec, NotSaison)
    IN  [i \in 1..Len(kept) |-> Cleaned(kept[i])]

\* create_csv raises: pd.DataFrame([]) has no column to select (KeyError); a
\* frame left empty by the filters makes apply(..., result_type="expand")
\* return the four-column frame, which cannot be assigned to three columns
\* (ValueError); decompose raises on an empty year
CreateCsvRaises(data) ==
    \/ Len(data) = 0
    \/ Len(Filtered(data)) = 0
    \/ \E i \in 1..Len(Filtered(data)) : DecomposeRaises(RawRow(Filtered(data)[i]))

\* the frame create_csv returns (and writes to all_films.csv)
CreateCsvFrame(data) == drop_duplicates(Normalized(data))

(***************************************************************************)
(* The catalogue the source serves: raw entries as load_raw_data returns   *)
(* them (type_defs.DataMediatheque, the seven columns create_csv keeps).   *)
(***************************************************************************)
Text_A == <<"A">>
Text_QA_de_X_19 == <<QUOTE, "A", QUOTE, " ", "d", "e", " ", "X", " ", "(", "1", "9", ")">>
Text_QA_de_X_empty == <<QUOTE, "A", QUOTE, " ", "d", "'", "X", " ", "(", ")">>
Text_A_version ==
    <<"A", " ", "-", "(", "V", "e", "r", "s", "i", "o", "n", " ",
      "l", "o", "n", "g", "u", "e", ")">>
Text_QB_de_Y == <<QUOTE, "B", QUOTE, " ", "d", "e", " ", "Y">>
Text_L_C == <<"L", "'", " ", "C">>
Text_D_saison == <<"D", " ", "S", "a", "i", "s", "o", "n", " ", "2">>

Entry(id, title, directors, year, type, seasons, duration) ==
    [id |-> id, title |-> title, directors |-> directors, productionYear |-> year,
     productType |-> type, seasonsCount |-> seasons, duration |-> duration]

\* the entries the catalogue is drawn from, by id
Pool ==
    << Entry(1, Text_QA_de_X_19, <<>>, <<>>, "PROGRAM", 0, <<5400>>),
       Entry(2, Text_A, << <<"X">> >>, <<19>>, "PROGRAM", 0, <<5400>>),
       Entry(3, Text_A_version, << <<"X">> >>, <<19>>, "PROGRAM", 0, <<5400>>),
       Entry(4, Text_QB_de_Y, <<>>, <<>>, "PROGRAM", 0, <<5400>>),
       Entry(5, Text_L_C, << <<"X">>, <<"Y">> >>, <<20>>, "PROGRAM", 0, <<3001>>),
       Entry(6, Text_D_saison, <<>>, <<21>>, "PROGRAM", 0, <<5400>>),
       Entry(7, Text_A, <<>>, <<22>>, "SERIE", 0, <<5400>>),
       Entry(8, Text_A, <<>>, <<23>>, "PROGRAM", 2, <<5400>>),
       Entry(9, Text_A, <<>>, <<24>>, "PROGRAM", 0, <<3000>>),
       Entry(10, Text_QA_de_X_empty, <<>>, <<>>, "PROGRAM", 0, <<5400>>) >>

Min(S) == CHOOSE x \in S : \A y \in S : x <= y

RECURSIVE Ascending(_)
Ascending(S) == IF S = {} THEN <<>> ELSE <<Min(S)>> \o Ascending(S \ {Min(S)})

Reverse(q) == [i \in 1..Len(q) |-> q[Len(q) + 1 - i]]

\* a catalogue: at most MaxCatalog entries of the pool
Catalogs ==
    {[i \in 1..Cardinality(S) |-> Pool[Ascending(S)[i]]] :
        S \in {T \in SUBSET (1..Len(Pool)) : Cardinality(T) <= MaxCatalog}}

(***************************************************************************)
(* all_films.csv as earlier runs can have left it: written by create_csv   *)
(* (to_csv of a new frame) or by the rollback of main (to_csv of a frame   *)
(* that read_csv built).                                                   *)
(***************************************************************************)
\* a catalogue of max_deleted_films + 1 films that have since been withdrawn
BulkCatalog ==
    [i \in 1..(max_deleted_films + 1) |->
        Entry(1000 + i, Text_A, <<>>, <<1900 + i>>, "PROGRAM", 0, <<5400>>)]

EarlierCatalogs ==
    { <<Pool[1], Pool[4]>>, <<Pool[2], Pool[5]>>, <<Pool[2]>>, BulkCatalog }

EarlierFiles ==
    {ToCsv(CreateCsvFrame(c)) : c \in EarlierCatalogs}
    \cup {ToCsv(ReadCsv(ToCsv(CreateCsvFrame(c)))) : c \in EarlierCatalogs}

NoFile == [exists |-> FALSE, rows |-> <<>>]
File(rows) == [exists |-> TRUE, rows |-> rows]

(***************************************************************************)
(* The state of one run of main (src/main.py:316-429).                     *)
(***************************************************************************)
VARIABLES
    pc,                     \* where main is
    result,                 \* how main ended: "running", "returned", "raised"
    data,                   \* the geolocation answer: <<>> or <<country>>
    catalog,                \* the entries the source holds
    under_returns,          \* truncated publication-date passes so far
    raw,                    \* the latest load_raw_data: its sort_by and its result
    all_films_csv,          \* the rows of all_films.csv
    temp_films_import_csv,  \* temp_films_import.csv: NoFile or File(rows)
    old_data,
    new_data_complete,
    new_data_sorted,
    added_films,
    removed_films,
    change_all,
    calls,                  \* the import_list calls: [change_all, payload, outcome]
    ipc,                    \* where import_list is
    exc,                    \* the exception import_list raised
    drivers,                \* browser sessions opened and not quit
    touched,                \* what the run has done so far
    log,                    \* the messages logged by main
    \* one call of load_raw_data, request by request
    source,                 \* what the source answers, page by page
    pageNumber,             \* payload["pageNumber"]
    response,               \* the latest response
    fetched,                \* the list data of load_raw_data
    requested,              \* the page numbers requested so far
    fpc,                    \* where load_raw_data is
    \* one call of decompose
    arg_row,                \* the row decompose is applied to
    triple,                 \* what the call gave
    \* the loop of import_list that moves the new films
    film_list,              \* the films of the list page, in page order
    film_elements,          \* what find_elements returned
    first_element,
    cursor,                 \* index in film_elements of the next film_element
    moved,                  \* the films dragged so far
    rpc                     \* where the loop is

vars ==
    << pc, result, data, catalog, under_returns, raw, all_films_csv,
       temp_films_import_csv, old_data, new_data_complete, new_data_sorted,
       added_films, removed_films, change_all, calls, ipc, exc, drivers, touched,
       log, source, pageNumber, response, fetched, requested, fpc, arg_row, triple,
       film_list, film_elements, first_element, cursor, moved, rpc >>

sourceVars == <<catalog, under_returns, raw>>
frameVars == <<old_data, new_data_complete, new_data_sorted>>
diffVars == <<added_films, removed_films>>
importVars == <<calls, ipc, exc, drivers>>
mainVars ==
    << pc, result, data, sourceVars, all_films_csv, temp_films_import_csv, frameVars,
       diffVars, change_all, importVars, touched, log >>
fetchVars == <<source, pageNumber, response, fetched, requested, fpc>>
decomposeVars == <<arg_row, triple>>
reorderVars == <<film_list, film_elements, first_element, cursor, moved, rpc>>
callVars == <<fetchVars, decomposeVars, reorderVars>>

Countries == {"FR", "US"}

\* a response that is none yet
NoResponse == [raises |-> "none", status_code |-> 0, content |-> <<>>]

\* no call of load_raw_data is followed request by request
FetchAtRest ==
    /\ source = <<>>
    /\ pageNumber = 0
    /\ response = NoResponse
    /\ fetched = <<>>
    /\ requested = <<>>
    /\ fpc = "idle"

\* no call of decompose is followed on its own
NoRow == [ID |-> 0, Title |-> <<>>, Directors |-> <<>>, Year |-> <<>>]
NoTriple == [status |-> "none", value |-> <<>>]
DecomposeAtRest ==
    /\ arg_row = NoRow
    /\ triple = NoTriple

\* the loop of lines 282-301 is not followed move by move
ReorderAtRest ==
    /\ film_list = <<>>
    /\ film_elements = <<>>
    /\ first_element = ""
    /\ cursor = 0
    /\ moved = <<>>
    /\ rpc = "idle"

\* main before its first statement
InitMain ==
    /\ pc = "geo"
    /\ result = "running"
    /\ data = <<>>
    /\ catalog \in Catalogs
    /\ under_returns = 0
    /\ raw = [sort_by |-> "none", data |-> <<>>]
    /\ all_films_csv \in EarlierFiles
    /\ temp_films_import_csv = NoFile
    /\ old_data = <<>>
    /\ new_data_complete = <<>>
    /\ new_data_sorted = <<>>
    /\ added_films = <<>>
    /\ removed_films = <<>>
    /\ change_all = FALSE
    /\ calls = <<>>
    /\ ipc = "idle"
    /\ exc = "none"
    /\ drivers = 0
    /\ touched = {}
    /\ log = <<>>

\* main is not run: the call of one function is followed on its own
MainNotStarted ==
    /\ catalog = <<>>
    /\ all_films_csv = ToCsv(CreateCsvFrame(<<Pool[2]>>))
    /\ InitMain

Init ==
    /\ InitMain
    /\ FetchAtRest
    /\ DecomposeAtRest
    /\ ReorderAtRest

\* main returns, or an exception leaves it
Finish(how) ==
    /\ pc' = "done"
    /\ result' = how

(***************************************************************************)
(* The geolocation gate (src/main.py:318-333).                             *)
(***************************************************************************)
\* requests.get raises ConnectionError: the first request is followed by a
\* second one in the except clause, whose ConnectionError leaves main
GeoConnectionError ==
    /\ pc \in {"geo", "geo_again"}
    /\ IF pc = "geo"
       THEN pc' = "geo_again" /\ UNCHANGED result
       ELSE Finish("raised")
    /\ UNCHANGED <<data, sourceVars, all_films_csv, temp_films_import_csv, frameVars,
                   diffVars, change_all, importVars, touched, log>>
    /\ UNCHANGED callVars

\* requests.get raises anything else (a read timeout): it leaves main
GeoOtherError ==
    /\ pc \in {"geo", "geo_again"}
    /\ Finish("raised")
    /\ UNCHANGED <<data, sourceVars, all_films_csv, temp_films_import_csv, frameVars,
                   diffVars, change_all, importVars, touched, log>>
    /\ UNCHANGED callVars

\* WrongCountry that also refuses an answer without country
WrongCountry_UnknownToo(answer) == answer = <<>> \/ answer[1] # "FR"

\* the test of line 323 on the answer
WrongCountry(answer) == answer # <<>> /\ answer[1] # "FR"

\* the answer arrives, with a country or without
GeoResponse ==
    /\ pc \in {"geo", "geo_again"}
    /\ \E answer \in {<<>>} \cup {<<c>> : c \in Countries} :
        /\ data' = answer
        /\ IF WrongCountry(answer)
           THEN Finish("returned") /\ log' = Append(log, "warning_country")
           ELSE /\ pc' = "read"
                /\ UNCHANGED result
                /\ log' = IF answer = <<>> THEN Append(log, "info_no_country") ELSE log
    /\ UNCHANGED <<sourceVars, all_films_csv, temp_films_import_csv,
                   frameVars, diffVars, change_all, importVars, touched>>
    /\ UNCHANGED callVars

(***************************************************************************)
(* load_raw_data (src/main.py:37-85) and the source it queries.            *)
(***************************************************************************)
code_success == 200

\* the source cuts what it serves into pages and answers the page after the
\* last one with another status
RECURSIVE Pages(_)
Pages(q) ==
    IF Len(q) = 0 THEN <<>>
    ELSE IF Len(q) <= PageSize THEN <<q>>
    ELSE <<SubSeq(q, 1, PageSize)>> \o Pages(SubSeq(q, PageSize + 1, Len(q)))

Responses(q) ==
    [i \in 1..Len(Pages(q)) |-> [status_code |-> code_success, content |-> Pages(q)[i]]]
    \o << [status_code |-> 404, content |-> <<>>] >>

\* what the source serves: the title order is the pool order, the publication
\* order the opposite one, and the publication pass may miss the last entries
Served(sort_by, missing) ==
    IF sort_by = "TITLE" THEN catalog
    ELSE SubSeq(Reverse(catalog), 1, Len(catalog) - missing)

\* the loop of lines 78-84 on the answers to pages 0, 1, 2, ...: the contents
\* are concatenated as long as the status is code_success
RECURSIVE LoadFrom(_, _)
LoadFrom(responses, page) ==
    IF page <= Len(responses) /\ responses[page].status_code = code_success
    THEN responses[page].content \o LoadFrom(responses, page + 1)
    ELSE <<>>

load_raw_data(sort_by, missing) == LoadFrom(Responses(Served(sort_by, missing)), 1)

(***************************************************************************)
(* The snapshot builder of main (src/main.py:335-341).                     *)
(***************************************************************************)
\* old_data = pd.read_csv("all_films.csv")
ReadOld ==
    /\ pc = "read"
    /\ old_data' = ReadCsv(all_films_csv)
    /\ touched' = touched \cup {"read"}
    /\ pc' = "title"
    /\ UNCHANGED <<result, data, sourceVars, all_films_csv, temp_films_import_csv,
                   new_data_complete, new_data_sorted, diffVars, change_all,
                   importVars, log>>
    /\ UNCHANGED callVars

\* a request of load_raw_data raises (connection error, timeout): the exception
\* goes through create_csv and main
FetchFails ==
    /\ pc \in {"title", "date"}
    /\ touched' = touched \cup {"catalog"}
    /\ Finish("raised")
    /\ UNCHANGED <<data, sourceVars, all_films_csv, temp_films_import_csv, frameVars,
                   diffVars, change_all, importVars, log>>
    /\ UNCHANGED callVars

\* Complete that tolerates one missing row
Complete_OffByOne(sorted, complete) == Len(sorted) + 1 >= Len(complete)

\* the loop test of line 340
Complete(sorted, complete) == Len(sorted) >= Len(complete)

\* new_data_complete = create_csv("TITLE")
CreateCsvTitle ==
    /\ pc = "title"
    /\ raw' = [sort_by |-> "TITLE", data |-> load_raw_data("TITLE", 0)]
    /\ touched' = touched \cup {"catalog"} \cup
                  (IF CreateCsvRaises(raw'.data) THEN {} ELSE {"write"})
    /\ IF CreateCsvRaises(raw'.data)
       THEN /\ Finish("raised")
            /\ UNCHANGED <<all_films_csv, new_data_complete>>
       ELSE /\ new_data_complete' = CreateCsvFrame(raw'.data)
            /\ all_films_csv' = ToCsv(new_data_complete')
            /\ pc' = "date"
            /\ UNCHANGED result
    /\ UNCHANGED <<data, catalog, under_returns, temp_films_import_csv, old_data,
                   new_data_sorted, diffVars, change_all, importVars, log>>
    /\ UNCHANGED callVars

\* one turn of the while loop: new_data_sorted = create_csv("PUBLICATION_DATE"),
\* accepted when it has at least as many rows as new_data_complete
CreateCsvDate ==
    /\ pc = "date"
    /\ \E missing \in 0..Len(catalog) :
        /\ missing > 0 => under_returns < MaxUnderReturn
        /\ under_returns' = IF missing > 0 THEN under_returns + 1 ELSE under_returns
        /\ raw' = [sort_by |-> "PUBLICATION_DATE",
                   data |-> load_raw_data("PUBLICATION_DATE", missing)]
    /\ touched' = touched \cup {"catalog"} \cup
                  (IF CreateCsvRaises(raw'.data) THEN {} ELSE {"write"})
    /\ IF CreateCsvRaises(raw'.data)
       THEN /\ Finish("raised")
            /\ UNCHANGED <<all_films_csv, new_data_sorted>>
       ELSE /\ new_data_sorted' = CreateCsvFrame(raw'.data)
            /\ all_films_csv' = ToCsv(new_data_sorted')
            /\ pc' = IF Complete(new_data_sorted', new_data_complete)
                     THEN "diff" ELSE "date"
            /\ UNCHANGED result
    /\ UNCHANGED <<data, catalog, temp_films_import_csv, old_data, new_data_complete,
                   diffVars, change_all, importVars, log>>
    /\ UNCHANGED callVars

(***************************************************************************)
(* The diff and the choice of the strategy (src/main.py:343-402).          *)
(***************************************************************************)
\* NotIn that compares whole rows instead of the ID column
NotIn_ByRow(frame, other) ==
    SelectSeq(frame, LAMBDA row : \A i \in 1..Len(other) : other[i] # row)

\* frame[~frame["ID"].isin(other["ID"])]
NotIn(frame, other) == SelectSeq(frame, LAMBDA row : row.ID \notin IDs(other))

ComputeDiff ==
    /\ pc = "diff"
    /\ added_films' = NotIn(new_data_sorted, old_data)
    /\ removed_films' = NotIn(old_data, new_data_sorted)
    /\ pc' = "decide"
    /\ UNCHANGED <<result, data, sourceVars, all_films_csv, temp_films_import_csv,
                   frameVars, change_all, importVars, touched, log>>
    /\ UNCHANGED callVars

\* Strategy with the test of line 353 on added_films instead of removed_films
Strategy_TestsAdded(added, removed) ==
    IF Len(added) = 0 THEN "no_new_films"
    ELSE IF Len(added) > 0 THEN "full_replace"
    ELSE IF Len(removed) > max_deleted_films THEN "suspicious"
    ELSE "incremental_add"

\* the branch main takes at lines 346-387
Strategy(added, removed) ==
    IF Len(added) = 0 THEN "no_new_films"
    ELSE IF Len(removed) > 0 THEN "full_replace"
    ELSE IF Len(removed) > max_deleted_films THEN "suspicious"
    ELSE "incremental_add"

\* frame.drop("ID", axis="columns").to_csv("temp_films_import.csv", index=False)
Stage(frame) ==
    /\ temp_films_import_csv' = File(ToCsv(DropID(frame)))
    /\ touched' = touched \cup {"stage"}

Decide ==
    /\ pc = "decide"
    /\ LET strategy == Strategy(added_films, removed_films)
       IN  CASE strategy = "no_new_films" ->
                 /\ log' = Append(log, "info_no_new_films")
                 /\ Finish("returned")
                 /\ UNCHANGED <<change_all, temp_films_import_csv, touched>>
             [] strategy = "full_replace" ->
                 /\ change_all' = TRUE
                 /\ Stage(new_data_sorted)
                 /\ log' = Append(log, "info_whole_list")
                 /\ pc' = "import"
                 /\ UNCHANGED result
             [] strategy = "suspicious" ->
                 /\ log' = Append(log, "warning_suspicious")
                 /\ Finish("returned")
                 /\ UNCHANGED <<change_all, temp_films_import_csv, touched>>
             [] strategy = "incremental_add" ->
                 /\ change_all' = FALSE
                 /\ Stage(added_films)
                 /\ log' = Append(log, "info_new_films")
                 /\ pc' = "import"
                 /\ UNCHANGED result
    /\ UNCHANGED <<data, sourceVars, all_films_csv, frameVars, diffVars, importVars>>
    /\ UNCHANGED callVars

(***************************************************************************)
(* import_list (src/main.py:188-313), one browser session per call.        *)
(* ipc: "session" the browser is open (sign-in, credentials, list page,    *)
(* consent, upload field), "uploaded" the payload is sent and the match    *)
(* awaited, "matched" the import answered without error, "reorder" the new *)
(* films are to be moved, "save" the Save button is to be clicked.         *)
(***************************************************************************)
\* selenium's TimeoutException and NoSuchElementException are subclasses of
\* WebDriverException: the clause of line 407 catches them
WebDriverExceptions == {"WebDriverException", "TimeoutException"}

SetOutcome(outcome) == calls' = [calls EXCEPT ![Len(calls)].outcome = outcome]

\* import_list(change_all) is called (lines 405 and 418) and opens the browser
CallImport ==
    /\ pc \in {"import", "retry"}
    /\ pc' = IF pc = "import" THEN "importing" ELSE "retrying"
    /\ calls' = Append(calls, [change_all |-> change_all,
                               payload |-> temp_films_import_csv,
                               outcome |-> "running"])
    /\ ipc' = "session"
    /\ drivers' = drivers + 1
    /\ touched' = touched \cup {"remote"}
    /\ UNCHANGED <<result, data, sourceVars, all_films_csv, temp_films_import_csv,
                   frameVars, diffVars, change_all, exc, log>>
    /\ UNCHANGED callVars

\* import_list(change_all) is called and webdriver.Chrome raises (line 210):
\* no browser session is opened
ImportNoBrowser ==
    /\ pc \in {"import", "retry"}
    /\ pc' = IF pc = "import" THEN "except" ELSE "except_retry"
    /\ calls' = Append(calls, [change_all |-> change_all,
                               payload |-> temp_films_import_csv,
                               outcome |-> "WebDriverException"])
    /\ exc' = "WebDriverException"
    /\ touched' = touched \cup {"remote"}
    /\ UNCHANGED <<result, data, sourceVars, all_films_csv, temp_films_import_csv,
                   frameVars, diffVars, change_all, ipc, drivers, log>>
    /\ UNCHANGED callVars

\* the exception leaves import_list and reaches the try of main
Raise(kind) ==
    /\ exc' = kind
    /\ ipc' = "idle"
    /\ SetOutcome(kind)
    /\ pc' = IF pc = "importing" THEN "except" ELSE "except_retry"

importFrame ==
    <<result, data, sourceVars, all_films_csv, temp_films_import_csv, frameVars,
      diffVars, change_all, touched, log>>

\* a WebDriverWait times out, or an element is not found (lines 218, 234, 241,
\* 245, 250, 267, 275, 278, 305): the browser is not quit
ImportTimeout ==
    /\ ipc \in {"session", "uploaded", "matched", "save"}
    /\ Raise("TimeoutException")
    /\ UNCHANGED <<drivers, importFrame>>
    /\ UNCHANGED callVars

\* the credentials are not set (line 224)
ImportNoCredentials ==
    /\ ipc = "session"
    /\ Raise("ValueError")
    /\ UNCHANGED <<drivers, importFrame>>
    /\ UNCHANGED callVars

\* sign-in, list page and upload of temp_films_import.csv (lines 217-248)
ImportUpload ==
    /\ ipc = "session"
    /\ ipc' = "uploaded"
    /\ UNCHANGED <<pc, calls, exc, drivers, importFrame>>
    /\ UNCHANGED callVars

\* Letterboxd answers "Oh no!" (lines 260-264): quit, then raise
ImportOhNo ==
    /\ ipc = "uploaded"
    /\ drivers' = drivers - 1
    /\ Raise("WebDriverException")
    /\ UNCHANGED importFrame
    /\ UNCHANGED callVars

\* the import is matched without an error message (lines 250-261)
ImportMatched ==
    /\ ipc = "uploaded"
    /\ ipc' = "matched"
    /\ UNCHANGED <<pc, calls, exc, drivers, importFrame>>
    /\ UNCHANGED callVars

\* replace-original when change_all, submit the matches, Save is clickable
\* (lines 266-280)
ImportSubmit ==
    /\ ipc = "matched"
    /\ ipc' = IF calls[Len(calls)].change_all THEN "save" ELSE "reorder"
    /\ UNCHANGED <<pc, calls, exc, drivers, importFrame>>
    /\ UNCHANGED callVars

\* film_elements is empty: film_elements[0] raises IndexError (line 291)
ImportNoEntries ==
    /\ ipc = "reorder"
    /\ Raise("IndexError")
    /\ UNCHANGED <<drivers, importFrame>>
    /\ UNCHANGED callVars

\* the new films are moved before the others (lines 282-301)
ImportReorder ==
    /\ ipc = "reorder"
    /\ ipc' = "save"
    /\ UNCHANGED <<pc, calls, exc, drivers, importFrame>>
    /\ UNCHANGED callVars

\* ImportSaved that leaves temp_films_import.csv in place
ImportSaved_KeepsPayload ==
    /\ ipc = "save"
    /\ ipc' = "idle"
    /\ SetOutcome("confirmed")
    /\ drivers' = drivers - 1
    /\ log' = Append(log, "info_imported")
    /\ Finish("returned")
    /\ UNCHANGED <<data, sourceVars, all_films_csv, temp_films_import_csv, frameVars,
                   diffVars, change_all, exc, touched>>
    /\ UNCHANGED callVars

\* Save is clicked and "list was saved" appears (lines 303-313): quit, delete
\* the payload, return; main logs the success and ends (line 406 or 419)
ImportSaved ==
    /\ ipc = "save"
    /\ ipc' = "idle"
    /\ SetOutcome("confirmed")
    /\ drivers' = drivers - 1
    /\ temp_films_import_csv' = NoFile
    /\ log' = Append(log, "info_imported")
    /\ Finish("returned")
    /\ UNCHANGED <<data, sourceVars, all_films_csv, frameVars, diffVars, change_all,
                   exc, touched>>
    /\ UNCHANGED callVars

(***************************************************************************)
(* The except clauses of main (src/main.py:407-429).                       *)
(***************************************************************************)
\* old_data.to_csv("all_films.csv", index=False); logger.exception(...)
Rollback ==
    /\ all_films_csv' = ToCsv(old_data)
    /\ log' = Append(log, "exception")

\* ExceptWebDriver without the test of change_all: every failed import is retried
ExceptWebDriver_AlwaysRetries ==
    /\ pc = "except"
    /\ exc \in WebDriverExceptions
    /\ log' = Append(log, "info_fallback")
    /\ change_all' = FALSE
    /\ Stage(added_films)
    /\ pc' = "retry"
    /\ UNCHANGED <<result, data, sourceVars, all_films_csv, frameVars, diffVars,
                   importVars>>
    /\ UNCHANGED callVars

\* except WebDriverException (line 407): after a complete import only the new
\* films are staged and imported; after an import of new films nothing is done
ExceptWebDriver ==
    /\ pc = "except"
    /\ exc \in WebDriverExceptions
    /\ IF change_all
       THEN /\ log' = Append(log, "info_fallback")
            /\ change_all' = FALSE
            /\ Stage(added_films)
            /\ pc' = "retry"
            /\ UNCHANGED result
       ELSE /\ Finish("returned")
            /\ UNCHANGED <<log, change_all, temp_films_import_csv, touched>>
    /\ UNCHANGED <<data, sourceVars, all_films_csv, frameVars, diffVars, importVars>>
    /\ UNCHANGED callVars

\* except Exception (line 427)
ExceptOther ==
    /\ pc = "except"
    /\ exc \notin WebDriverExceptions
    /\ Rollback
    /\ Finish("returned")
    /\ UNCHANGED <<data, sourceVars, temp_films_import_csv, frameVars, diffVars,
                   change_all, importVars, touched>>
    /\ UNCHANGED callVars

\* except Exception of the second import (line 420)
ExceptRetry ==
    /\ pc = "except_retry"
    /\ Rollback
    /\ Finish("returned")
    /\ UNCHANGED <<data, sourceVars, temp_films_import_csv, frameVars, diffVars,
                   change_all, importVars, touched>>
    /\ UNCHANGED callVars

Next ==
    \/ GeoConnectionError
    \/ GeoOtherError
    \/ GeoResponse
    \/ ReadOld
    \/ FetchFails
    \/ CreateCsvTitle
    \/ CreateCsvDate
    \/ ComputeDiff
    \/ Decide
    \/ CallImport
    \/ ImportNoBrowser
    \/ ImportTimeout
    \/ ImportNoCredentials
    \/ ImportUpload
    \/ ImportOhNo
    \/ ImportMatched
    \/ ImportSubmit
    \/ ImportNoEntries
    \/ ImportReorder
    \/ ImportSaved
    \/ ExceptWebDriver
    \/ ExceptOther
    \/ ExceptRetry

Spec == Init /\ [][Next]_vars

(***************************************************************************)
(* main against a source whose publication-date pass goes on coming back   *)
(* truncated after the MaxUnderReturn passes that Spec counts.  main takes *)
(* its next step as long as it has one: the run is sequential and nothing  *)
(* suspends it.                                                            *)
(***************************************************************************)
\* one more truncated pass: create_csv("PUBLICATION_DATE") at line 341
UnderReturnAgain ==
    /\ pc = "date"
    /\ under_returns = MaxUnderReturn
    /\ \E missing \in 1..Len(catalog) :
        raw' = [sort_by |-> "PUBLICATION_DATE",
                data |-> load_raw_data("PUBLICATION_DATE", missing)]
    /\ touched' = touched \cup {"catalog"} \cup
                  (IF CreateCsvRaises(raw'.data) THEN {} ELSE {"write"})
    /\ IF CreateCsvRaises(raw'.data)
       THEN /\ Finish("raised")
            /\ UNCHANGED <<all_films_csv, new_data_sorted>>
       ELSE /\ new_data_sorted' = CreateCsvFrame(raw'.data)
            /\ all_films_csv' = ToCsv(new_data_sorted')
            /\ pc' = IF Complete(new_data_sorted', new_data_complete)
                     THEN "diff" ELSE "date_again"
            /\ UNCHANGED result
    /\ UNCHANGED <<data, catalog, under_returns, temp_films_import_csv, old_data,
                   new_data_complete, diffVars, change_all, importVars, log>>
    /\ UNCHANGED callVars

\* the test of line 340 holds: the loop takes one more turn
LoopAgain ==
    /\ pc = "date_again"
    /\ ~Complete(new_data_sorted, new_data_complete)
    /\ pc' = "date"
    /\ UNCHANGED <<result, data, sourceVars, all_films_csv, temp_films_import_csv,
                   frameVars, diffVars, change_all, importVars, touched, log>>
    /\ UNCHANGED callVars

NextMisbehaving ==
    \/ Next
    \/ UnderReturnAgain
    \/ LoopAgain

SpecMisbehaving == Init /\ [][NextMisbehaving]_vars /\ WF_vars(NextMisbehaving)

(***************************************************************************)
(* load_raw_data (src/main.py:61-85), request by request, against a source *)
(* that answers each page with code_success, with another status or with   *)
(* an exception of requests.post.                                          *)
(***************************************************************************)
RequestErrors == {"ConnectionError", "ReadTimeout"}
NotSuccess == {404, 500}

\* the answers to one page: size is the number of entries of the body
Answers ==
    [raises : {"none"}, status_code : {code_success}, size : 0..PageSize]
    \cup [raises : {"none"}, status_code : NotSuccess, size : {1}]
    \cup [raises : RequestErrors, status_code : {0}, size : {0}]

Sources == UNION {[1..n -> Answers] : n \in 0..MaxPages}

\* the entries of page p
PageContent(p, n) == [j \in 1..n |-> <<p, j>>]

\* what requests.post gives for page p; the pages the source does not hold
\* are answered 404
AnswerTo(p) ==
    IF p + 1 <= Len(source)
    THEN [raises |-> source[p + 1].raises,
          status_code |-> source[p + 1].status_code,
          content |-> PageContent(p, source[p + 1].size)]
    ELSE [raises |-> "none", status_code |-> 404, content |-> <<>>]

\* PostAttempts that asks for page 0 a second time
PostAttempts_FirstTwice(page) == IF page = 0 THEN <<0, 0>> ELSE <<page>>

\* the requests made for a page whose request raises: requests.post stands in
\* no try statement (lines 73-75 and 82-84), the exception leaves load_raw_data
PostAttempts(page) == <<page>>

\* response = requests.post(url, headers=headers, json=payload, timeout=(5, 30))
Post(page) ==
    IF AnswerTo(page).raises # "none"
    THEN /\ requested' = requested \o PostAttempts(page)
         /\ fpc' = "raised"
         /\ UNCHANGED response
    ELSE /\ requested' = Append(requested, page)
         /\ response' = AnswerTo(page)
         /\ fpc' = "loop"

\* NextPage that leaves a page out
NextPage_Skips(page) == page + 2

\* payload["pageNumber"] += 1
NextPage(page) == page + 1

InitFetch ==
    /\ MainNotStarted
    /\ DecomposeAtRest
    /\ ReorderAtRest
    /\ source \in Sources
    /\ pageNumber = 0
    /\ response = NoResponse
    /\ fetched = <<>>
    /\ requested = <<>>
    /\ fpc = "start"

\* the request of lines 73-75, for page 0
FirstPost ==
    /\ fpc = "start"
    /\ Post(pageNumber)
    /\ UNCHANGED <<source, pageNumber, fetched, mainVars, decomposeVars, reorderVars>>

\* one turn of the while loop (lines 78-84)
LoopTurn ==
    /\ fpc = "loop"
    /\ response.status_code = code_success
    /\ fetched' = fetched \o response.content
    /\ pageNumber' = NextPage(pageNumber)
    /\ Post(pageNumber')
    /\ UNCHANGED <<source, mainVars, decomposeVars, reorderVars>>

\* return data (line 85)
ReturnData ==
    /\ fpc = "loop"
    /\ response.status_code # code_success
    /\ fpc' = "returned"
    /\ UNCHANGED <<source, pageNumber, response, fetched, requested, mainVars,
                   decomposeVars, reorderVars>>

NextFetch ==
    \/ FirstPost
    \/ LoopTurn
    \/ ReturnData

SpecFetch == InitFetch /\ [][NextFetch]_vars

(***************************************************************************)
(* decompose (src/main.py:88-115) called on one row, as data.apply does    *)
(* at line 162.                                                            *)
(***************************************************************************)
\* the titles the rows are drawn from: a prefix, a quoted part, " d'" or
\* " de ", a name, parentheses and a suffix, each of them present or not
TitlePrefixes == {<<>>, <<"x", " ">>}
TitleQuoted == {<<>>, <<QUOTE, QUOTE>>, <<QUOTE, "A", QUOTE>>}
TitleLinks == {<<>>, <<" ", "d", "'">>, <<" ", "d", "e", " ">>}
TitleNames == {<<>>, <<"X">>}
TitleParentheses ==
    {<<>>, <<" ", "(", "1", "9", ")">>, <<" ", "(", ")">>, <<" ", "(", "x", ")">>}
TitleSuffixes == {<<>>, <<" ", QUOTE, "B", QUOTE, " ", "d", "e", " ", "Y">>}

Titles ==
    {a \o b \o c \o d \o e \o f :
        a \in TitlePrefixes, b \in TitleQuoted, c \in TitleLinks, d \in TitleNames,
        e \in TitleParentheses, f \in TitleSuffixes}

Rows ==
    [ID : {1}, Title : Titles,
     Directors : {<<>>, << <<"X">> >>, << <<"X">>, <<"Y">> >>},
     Year : {<<>>, <<19>>}]

InitDecompose ==
    /\ MainNotStarted
    /\ FetchAtRest
    /\ ReorderAtRest
    /\ arg_row \in Rows
    /\ triple = NoTriple

\* what the call gives: the tuple it returns, or the ValueError of int("")
Apply(r) ==
    IF DecomposeRaises(r)
    THEN [status |-> "ValueError", value |-> <<>>]
    ELSE [status |-> "returned", value |-> decompose(r)]

CallDecompose ==
    /\ triple.status = "none"
    /\ triple' = Apply(arg_row)
    /\ UNCHANGED <<arg_row, mainVars, fetchVars, reorderVars>>

NextDecompose == CallDecompose

SpecDecompose == InitDecompose /\ [][NextDecompose]_vars

(***************************************************************************)
(* The loop of import_list that puts the new films first                   *)
(* (src/main.py:282-301), move by move, on the films of the list page.     *)
(***************************************************************************)
\* Id of the film we want at the last position
last_film_id == "78pm"

\* data-film-id of the other films of the list and of the imported films
PreviousIds == <<"p1", "p2", "p3", "p4">>
NewIds == <<"n1", "n2", "n3", "n4", "n5">>

InsertAt(q, p, x) == SubSeq(q, 1, p - 1) \o <<x>> \o SubSeq(q, p, Len(q))
Without(q, x) == SelectSeq(q, LAMBDA y : y # x)
Index(q, x) == CHOOSE i \in 1..Len(q) : q[i] = x

\* the list before the import: up to MaxPrevious films, without the anchor or
\* with the anchor at any place
PreviousLists ==
    UNION { {SubSeq(PreviousIds, 1, k)} \cup
            {InsertAt(SubSeq(PreviousIds, 1, k), p, last_film_id) : p \in 1..(k + 1)} :
            k \in 0..MaxPrevious }

\* the list page once the matches are submitted: the imported films follow
\* the films the list held
ImportedLists ==
    {previous \o SubSeq(NewIds, 1, m) : previous \in PreviousLists, m \in 0..MaxNew}

\* click_and_hold(film).move_to_element(target).release(): the page puts film
\* at the place of target, and target and the films after it one place down
Drop(list, film, target) ==
    IF film = target THEN list
    ELSE InsertAt(Without(list, film), Index(Without(list, film), target), film)

\* NextFirst that keeps the first film of the page as the target
NextFirst_Stays(first, film) == first

\* first_element = film_element (line 301)
NextFirst(first, film) == film

\* import_list(change_all=False) has submitted the matches and Save is clickable
InitReorder ==
    /\ MainNotStarted
    /\ FetchAtRest
    /\ DecomposeAtRest
    /\ film_list \in ImportedLists
    /\ film_elements = <<>>
    /\ first_element = ""
    /\ cursor = 0
    /\ moved = <<>>
    /\ rpc = "find"

\* find_elements and first_element = film_elements[0] (lines 283-291):
\* IndexError when the page shows no film
FindElements ==
    /\ rpc = "find"
    /\ film_elements' = film_list
    /\ cursor' = Len(film_list)
    /\ IF film_list = <<>>
       THEN rpc' = "raised" /\ UNCHANGED first_element
       ELSE rpc' = "loop" /\ first_element' = film_list[1]
    /\ UNCHANGED <<film_list, moved, mainVars, fetchVars, decomposeVars>>

\* film_element is the anchor: break (lines 293-294)
ReorderBreak ==
    /\ rpc = "loop"
    /\ cursor >= 1
    /\ film_elements[cursor] = last_film_id
    /\ rpc' = "saving"
    /\ UNCHANGED <<film_list, film_elements, first_element, cursor, moved,
                   mainVars, fetchVars, decomposeVars>>

\* film_element is dragged to first_element and becomes first_element
\* (lines 295-301)
ReorderMove ==
    /\ rpc = "loop"
    /\ cursor >= 1
    /\ film_elements[cursor] # last_film_id
    /\ film_list' = Drop(film_list, film_elements[cursor], first_element)
    /\ moved' = Append(moved, film_elements[cursor])
    /\ first_element' = NextFirst(first_element, film_elements[cursor])
    /\ cursor' = cursor - 1
    /\ UNCHANGED <<film_elements, rpc, mainVars, fetchVars, decomposeVars>>

\* film_elements[::-1] is exhausted
ReorderEnd ==
    /\ rpc = "loop"
    /\ cursor = 0
    /\ rpc' = "saving"
    /\ UNCHANGED <<film_list, film_elements, first_element, cursor, moved,
                   mainVars, fetchVars, decomposeVars>>

NextReorder ==
    \/ FindElements
    \/ ReorderBreak
    \/ ReorderMove
    \/ ReorderEnd

SpecReorder == InitReorder /\ [][NextReorder]_vars

(***************************************************************************)
(* Vocabulary of the properties.                                           *)
(***************************************************************************)
Range(q) == {q[i] : i \in 1..Len(q)}

\* an import_list call has received the save confirmation
Confirmed == \E i \in 1..Len(calls) : calls[i].outcome = "confirmed"

\* all_films.csv holds the snapshot that main read at its start
PersistedIsOld == ReadCsv(all_films_csv) = old_data

\* main has gone through the choice of lines 346-387
Decided ==
    \E i \in 1..Len(log) :
        log[i] \in {"info_no_new_films", "info_whole_list", "warning_suspicious",
                    "info_new_films"}

\* the while loop of lines 338-341 has accepted new_data_sorted
Accepted == pc \in {"diff", "decide"} \/ Decided

\* added_films and removed_films are computed
DiffDone == pc = "decide" \/ Decided

(***************************************************************************)
(* Properties of the persisted snapshot.                                   *)
(***************************************************************************)
\* C1: at every point of a run, all_films.csv holds the snapshot of the last
\* import the remote service confirmed: the snapshot read at the start as long
\* as no import_list call has been confirmed, the accepted new snapshot after.
C1_PersistedIsLastConfirmed ==
    "read" \in touched =>
        IF Confirmed
        THEN ReadCsv(all_films_csv) = ReadCsv(ToCsv(new_data_sorted))
        ELSE PersistedIsOld

\* C2: when main ends after import_list was called and no call was confirmed,
\* all_films.csv holds the snapshot read at the start, whatever the strategy
\* and whatever the exception.
C2_RollbackGuarantee ==
    (pc = "done" /\ calls # <<>> /\ ~Confirmed) => PersistedIsOld

(***************************************************************************)
(* Properties of the choice of the strategy.                               *)
(***************************************************************************)
\* the first import is import_list(flag) on the payload staged from frame
FirstImport(flag, frame) ==
    IF pc = "import"
    THEN change_all = flag /\ temp_films_import_csv = File(ToCsv(DropID(frame)))
    ELSE /\ calls # <<>>
         /\ calls[1].change_all = flag
         /\ calls[1].payload = File(ToCsv(DropID(frame)))

\* nothing was staged and import_list was not called
NoImport ==
    /\ "stage" \notin touched
    /\ "remote" \notin touched
    /\ temp_films_import_csv = NoFile
    /\ calls = <<>>

\* C3: with 1 to 100 removed films, main stages the whole new snapshot without
\* its ID column and calls import_list(change_all=True), whether or not films
\* were added.
C3_RemovalMeansFullReplace ==
    (Decided /\ Len(removed_films) > 0 /\ Len(removed_films) <= max_deleted_films)
        => FirstImport(TRUE, new_data_sorted)

\* C4: with no removed film, main stages the added films without their ID
\* column and calls import_list(change_all=False) when films were added, and
\* returns without staging and without calling import_list when none was.
C4_NoRemoval ==
    (Decided /\ Len(removed_films) = 0) =>
        IF Len(added_films) > 0
        THEN FirstImport(FALSE, added_films)
        ELSE NoImport /\ pc = "done" /\ result = "returned"

\* C4 witness: the import of the added films alone was called
C4_Witness ==
    /\ Decided
    /\ Len(removed_films) = 0
    /\ Len(added_films) > 0
    /\ Len(added_films) < Len(new_data_sorted)
    /\ calls # <<>>
    /\ calls[1].payload = File(ToCsv(DropID(added_films)))

\* C5: with more than 100 removed films the run ends without staging, without
\* calling import_list and with all_films.csv as it was read.
C5_SuspiciousDeletionGuard ==
    (Decided /\ Len(removed_films) > max_deleted_films) =>
        /\ NoImport
        /\ pc = "done"
        /\ PersistedIsOld

(***************************************************************************)
(* Properties of the fallback.                                             *)
(***************************************************************************)
\* C6: import_list is called at most twice; a second call follows a first call
\* with change_all=True that raised a WebDriverException, has change_all=False
\* and the added films as payload; such a failed first call is always followed
\* by that one retry; when the retry fails too the old snapshot is written
\* back; a failed first call with change_all=False is not retried.
C6_FallbackRule ==
    /\ Len(calls) <= 2
    /\ Len(calls) = 2 =>
        /\ calls[1].change_all
        /\ calls[1].outcome \in {"WebDriverException", "TimeoutException"}
        /\ ~calls[2].change_all
        /\ calls[2].payload = File(ToCsv(DropID(added_films)))
    /\ (/\ pc = "done"
        /\ calls # <<>>
        /\ calls[1].change_all
        /\ calls[1].outcome \in {"WebDriverException", "TimeoutException"})
        => Len(calls) = 2
    /\ (pc = "done" /\ Len(calls) = 2 /\ calls[2].outcome # "confirmed")
        => PersistedIsOld /\ log[Len(log)] = "exception"
    /\ (calls # <<>> /\ ~calls[1].change_all /\ calls[1].outcome \notin {"running", "confirmed"})
        => Len(calls) = 1 /\ pc \in {"except", "done"}

\* C6 witness: the complete import failed, the retry failed, main has ended
C6_Witness ==
    /\ pc = "done"
    /\ Len(calls) = 2
    /\ calls[2].outcome = "TimeoutException"
    /\ Len(added_films) < Len(new_data_sorted)

(***************************************************************************)
(* Properties of the snapshot builder and of the diff.                     *)
(***************************************************************************)
\* C7: the publication-date result main accepts has at least as many rows as
\* the title result; it is the result of the latest create_csv call; the loop
\* goes on only after a smaller result; the diff and the payload of the first
\* import are taken from the accepted result.
C7_Completeness ==
    /\ Accepted =>
        /\ Len(new_data_sorted) >= Len(new_data_complete)
        /\ raw.sort_by = "PUBLICATION_DATE"
        /\ new_data_sorted = CreateCsvFrame(raw.data)
    /\ (pc = "date" /\ raw.sort_by = "PUBLICATION_DATE")
        => Len(new_data_sorted) < Len(new_data_complete)
    /\ DiffDone =>
        /\ Range(added_films) \subseteq Range(new_data_sorted)
        /\ IDs(added_films) = IDs(new_data_sorted) \ IDs(old_data)
        /\ IDs(removed_films) = IDs(old_data) \ IDs(new_data_sorted)
    /\ calls # <<>> =>
        calls[1].payload = File(ToCsv(DropID(
            IF calls[1].change_all THEN new_data_sorted ELSE added_films)))

\* C7 witness: a truncated publication-date pass was refused and the full pass
\* that followed was accepted
C7_Witness ==
    /\ Accepted
    /\ under_returns >= 1
    /\ Len(catalog) > 0
    /\ Len(raw.data) = Len(catalog)

DiffByID ==
    DiffDone =>
        /\ \A row \in Range(new_data_sorted) :
            row \in Range(added_films) <=>
                \A i \in 1..Len(old_data) : old_data[i].ID # row.ID
        /\ Range(added_films) \subseteq Range(new_data_sorted)
        /\ \A row \in Range(old_data) :
            row \in Range(removed_films) <=>
                \A i \in 1..Len(new_data_sorted) : new_data_sorted[i].ID # row.ID
        /\ Range(removed_films) \subseteq Range(old_data)
        /\ IDs(added_films) \cap IDs(removed_films) = {}

\* C8: added_films is the set of rows of new_data_sorted whose ID is no ID of
\* old_data, removed_films the set of rows of old_data whose ID is no ID of
\* new_data_sorted, no ID is in both, and computing them changes neither frame.
C8_DiffCorrect ==
    /\ []DiffByID
    /\ [][pc = "diff" => (old_data' = old_data /\ new_data_sorted' = new_data_sorted)]_vars

\* C8 witness: a diff with an added film, a removed film and a film that stays
C8_Witness ==
    /\ DiffDone
    /\ added_films # <<>>
    /\ removed_films # <<>>
    /\ IDs(old_data) \cap IDs(new_data_sorted) # {}

\* the frame the latest create_csv call returned, when it returned one
Built == raw.sort_by # "none" /\ result # "raised"
LatestFrame == IF raw.sort_by = "TITLE" THEN new_data_complete ELSE new_data_sorted

\* the first of the normalized rows that has the triple of row k
FirstWithTriple(rows, k) ==
    rows[Min({j \in 1..Len(rows) : Triple(rows[j]) = Triple(rows[k])})]

\* C9: no two rows of a frame returned by create_csv have the same (Title,
\* Directors, Year); of the fetched entries that normalize to one triple the
\* first in fetch order is in the frame, with its own ID, and no other is.
C9_DedupCorrect ==
    /\ \A f \in {new_data_complete, new_data_sorted} :
        \A i, j \in 1..Len(f) : Triple(f[i]) = Triple(f[j]) => i = j
    /\ Built =>
        LET rows == Normalized(raw.data)
        IN  /\ \A k \in 1..Len(rows) :
                (rows[k] \in Range(LatestFrame)) <=> (rows[k] = FirstWithTriple(rows, k))
            /\ Range(LatestFrame) \subseteq Range(rows)
            /\ Len(LatestFrame) = Cardinality({Triple(rows[k]) : k \in 1..Len(rows)})

\* C9 witness: two fetched entries with different IDs gave one row
C9_Witness ==
    /\ Built
    /\ Len(LatestFrame) < Len(Normalized(raw.data))
    /\ raw.sort_by = "PUBLICATION_DATE"

(***************************************************************************)
(* Properties of the geolocation gate.                                     *)
(***************************************************************************)
\* C10: when the answer names a country other than FR, main has returned
\* without a catalogue request, without reading or writing all_films.csv,
\* without staging and without calling import_list; a run that returned after
\* an answer without country went on to the catalogue.
C10_GeolocationGate ==
    /\ (data # <<>> /\ data[1] # "FR") =>
        /\ pc = "done"
        /\ result = "returned"
        /\ touched = {}
        /\ NoImport
        /\ raw.sort_by = "none"
    /\ (data = <<>> /\ result = "returned") => {"read", "catalog"} \subseteq touched
    /\ (data = <<>> /\ pc = "read") => log = <<"info_no_country">>

\* C10 witness: the answer named another country and main has ended
C10_Witness == data = <<"US">> /\ pc = "done" /\ log = <<"warning_country">>

(***************************************************************************)
(* Properties of the staged payload.                                       *)
(***************************************************************************)
\* C11: once a payload is staged, temp_films_import.csv is absent exactly when
\* an import_list call has received the save confirmation; when main ends after
\* a confirmed import, all_films.csv holds new_data_sorted and no payload is
\* left.
C11_CommitOnApplied ==
    /\ "stage" \in touched => (temp_films_import_csv = NoFile <=> Confirmed)
    /\ (pc = "done" /\ Confirmed) =>
        /\ result = "returned"
        /\ all_films_csv = ToCsv(new_data_sorted)
        /\ temp_films_import_csv = NoFile

\* C11 witness: the retry with the added films was confirmed and main has ended
C11_Witness ==
    /\ pc = "done"
    /\ Len(calls) = 2
    /\ calls[2].outcome = "confirmed"
    /\ calls[2].payload # NoFile

(***************************************************************************)
(* Properties of the reorder loop.                                         *)
(***************************************************************************)
Position(q, x) == Min({i \in 1..Len(q) : q[i] = x})

\* the films find_elements returned after the anchor, and the others
FoundAfterAnchor ==
    {film_elements[i] : i \in (Position(film_elements, last_film_id) + 1)..Len(film_elements)}
FoundUpToAnchor ==
    {film_elements[i] : i \in 1..Position(film_elements, last_film_id)}

\* the page showed the anchor, and the films after it are the imported ones
NewFollowAnchor ==
    /\ last_film_id \in Range(film_elements)
    /\ FoundAfterAnchor = Range(film_elements) \cap Range(NewIds)

\* x and y are in the same order in q as in film_elements
SameOrder(q, x, y) ==
    Position(film_elements, x) < Position(film_elements, y)
        => Position(q, x) < Position(q, y)

\* C12: when the imported films follow the anchor on the list page, after the
\* loop every imported film is before the anchor and before every film the list
\* held, the imported films are in the order of their import, the films the
\* list held are in their former order, and the loop has dragged the imported
\* films only: nothing once it reached the anchor.
C12_ReorderContract ==
    /\ Range(film_list) = Range(film_elements) \/ rpc = "find"
    /\ (rpc = "saving" /\ NewFollowAnchor) =>
        /\ \A n \in FoundAfterAnchor : \A o \in FoundUpToAnchor :
            Position(film_list, n) < Position(film_list, o)
        /\ \A x, y \in FoundAfterAnchor : SameOrder(film_list, x, y)
        /\ \A x, y \in FoundUpToAnchor : SameOrder(film_list, x, y)
        /\ Range(moved) = FoundAfterAnchor
        /\ Len(moved) = Cardinality(FoundAfterAnchor)
        /\ film_elements[cursor] = last_film_id

\* C12 witness: two imported films were moved before two films and the anchor
C12_Witness ==
    /\ rpc = "saving"
    /\ film_elements = <<"p1", "p2", last_film_id, "n1", "n2">>
    /\ film_list = <<"n1", "n2", "p1", "p2", last_film_id>>

(***************************************************************************)
(* Properties of decompose.                                                *)
(***************************************************************************)
\* C13: the tuple decompose returns is, for a row with a year, the title as it
\* is, the directors joined by commas (empty without a list) and that year;
\* else, for a title that pattern matches, the three groups of its first
\* match; else, for a title that pattern2 matches, the group of its first match
\* with no director and no year; else the title as it is with no director and
\* no year.  A later rule is applied only when the earlier ones do not match.
C13_DecomposePriority ==
    triple.status = "returned" =>
        LET t == arg_row.Title
            v == triple.value
            hasYear == arg_row.Year # <<>>
            matchesA == PatternAMatches(t) # {}
            matchesB == PatternBMatches(t) # {}
        IN  /\ hasYear =>
                /\ v.Title = t
                /\ v.Directors = Join(arg_row.Directors)
                /\ arg_row.Directors = <<>> => v.Directors = <<>>
                /\ v.Year = arg_row.Year
            /\ (~hasYear /\ matchesA) =>
                /\ v.Title = PatternAGroups(t)[1]
                /\ v.Directors = PatternAGroups(t)[2]
                /\ v.Year = <<ParseInt(PatternAGroups(t)[3])>>
            /\ (~hasYear /\ ~matchesA /\ matchesB) =>
                /\ \E m \in PatternBMatches(t) :
                    /\ v.Title = Slice(t, m[1] + 1, m[2] - 1)
                    /\ \A n \in PatternBMatches(t) : m = n \/ LexLess(m, n)
                /\ v.Directors = <<>>
                /\ v.Year = <<>>
            /\ (~hasYear /\ ~matchesA /\ ~matchesB) =>
                v = [Title |-> t, Directors |-> <<>>, Year |-> <<>>]

\* C13 witness: a title that both patterns match, without a year: the groups
\* of pattern are returned
C13_Witness ==
    /\ arg_row.Title = Text_QA_de_X_19
    /\ arg_row.Year = <<>>
    /\ arg_row.Directors = << <<"X">>, <<"Y">> >>
    /\ PatternBMatches(arg_row.Title) # {}
    /\ triple.status = "returned"
    /\ triple.value = [Title |-> <<"A">>, Directors |-> <<"X">>, Year |-> <<19>>]

(***************************************************************************)
(* Properties of load_raw_data.                                            *)
(***************************************************************************)
\* the answers of the source to pages 0, 1, ... and to the page after the last
AllAnswers == [i \in 1..(Len(source) + 1) |-> AnswerTo(i - 1)]

Succeeds(a) == a.raises = "none" /\ a.status_code = code_success

\* the first page that is not answered with code_success, counted from 1
FirstStop == Min({i \in 1..(Len(source) + 1) : ~Succeeds(AllAnswers[i])})

\* the contents of the first n pages, in page order
RECURSIVE Concat(_, _)
Concat(answers, n) ==
    IF n = 0 THEN <<>> ELSE Concat(answers, n - 1) \o answers[n].content

\* C14: load_raw_data requests pages 0, 1, 2, ... in this order, none left out
\* and none twice, up to the first page that is not answered with success;
\* when that page is answered with another status the call returns the
\* contents of the pages before it, in page order; when its request raises,
\* the call raises and returns no list.
C14_PaginationComplete ==
    /\ requested = [i \in 1..Len(requested) |-> i - 1]
    /\ Len(requested) <= FirstStop
    /\ fpc = "returned" =>
        /\ Len(requested) = FirstStop
        /\ AllAnswers[FirstStop].raises = "none"
        /\ fetched = Concat(AllAnswers, FirstStop - 1)
        /\ fetched = LoadFrom(AllAnswers, 1)
    /\ fpc = "raised" =>
        /\ Len(requested) = FirstStop
        /\ AllAnswers[FirstStop].raises # "none"
    /\ AllAnswers[FirstStop].raises # "none" => fpc # "returned"

\* C14 witness: two pages were fetched and the third request ended the loop
C14_Witness ==
    /\ fpc = "returned"
    /\ requested = <<0, 1, 2>>
    /\ fetched = <<<<0, 1>>, <<0, 2>>, <<1, 1>>>>

\* how many times page p was requested
Count(p) == Cardinality({i \in 1..Len(requested) : requested[i] = p})

\* C15 as stated: a ConnectionError on the request of page 0 is followed by
\* exactly one more request of page 0; a page after page 0 is not requested
\* again; no page is requested more than twice.
C15_FirstPageRetriedOnce ==
    /\ (fpc # "start" /\ AllAnswers[1].raises = "ConnectionError") => Count(0) = 2
    /\ \A p \in Range(requested) : p > 0 => Count(p) = 1
    /\ \A p \in Range(requested) : Count(p) <= 2

\* C15, amended: load_raw_data requests no page a second time, page 0
\* included: an exception of the request of any page leaves the call at once,
\* that request being the last one made.
C15_NoPageRetried ==
    /\ \A p \in Range(requested) : Count(p) = 1
    /\ (fpc # "start" /\ AllAnswers[1].raises # "none") =>
        /\ fpc = "raised"
        /\ requested = <<0>>
        /\ fetched = <<>>
    /\ fpc = "raised" =>
        /\ requested # <<>>
        /\ AnswerTo(requested[Len(requested)]).raises # "none"

\* C15 witness: the request of page 0 raised ConnectionError and the call
\* raised after that one request
C15_Witness ==
    /\ fpc = "raised"
    /\ AllAnswers[1].raises = "ConnectionError"
    /\ requested = <<0>>
    /\ Len(source) = 2

(***************************************************************************)
(* Termination.                                                            *)
(***************************************************************************)
\* C16: every run of main ends, even when the publication-date pass of the
\* source comes back truncated at every attempt: the loops are left after a
\* bounded number of turns.
C16_EveryRunTerminates == <>(pc = "done")

(***************************************************************************)
(* Properties of the failures of import_list.                              *)
(***************************************************************************)
\* C17: when main ends after an import_list call failed and no later call was
\* confirmed, main has logged an error; and no exception of import_list
\* leaves main.
C17_FailureSurfaced ==
    /\ (pc = "done" /\ calls # <<>> /\ ~Confirmed) => "exception" \in Range(log)
    /\ (pc = "done" /\ calls # <<>>) => result = "returned"

\* C18: when a load_raw_data or create_csv call has raised, in the title pass
\* or in any publication-date pass, main has ended with all_films.csv as it was
\* read, with no payload staged and without a call of import_list.
C18_FailedBuildLeavesNoTrace ==
    (result = "raised" /\ "catalog" \in touched) =>
        /\ pc = "done"
        /\ PersistedIsOld
        /\ NoImport

\* C19: for a row without a year, whatever its title, the call of decompose
\* returns a tuple and raises nothing.
C19_DecomposeTotal ==
    (arg_row.Year = <<>> /\ triple.status # "none") => triple.status = "returned"

(***************************************************************************)
(* Properties of the browser sessions.                                     *)
(***************************************************************************)
\* C20: a browser session opened by an import_list call is quit when that call
\* is left, by return or by exception; so at most one session is open at any
\* time, the start of the second call included, and none when main has ended.
C20_SessionHygiene ==
    /\ ipc = "idle" => drivers = 0
    /\ drivers <= 1
    /\ pc = "done" => drivers = 0

====
